---------------------------- MODULE Spec2Model ----------------------------
(***************************************************************************)
(* Model of components of garden:                                          *)
(*   - the control protocol client's streaming calls (connection.Run,      *)
(*     connection.Attach and the demultiplexing goroutine                  *)
(*     connection.streamPayloads), src/unnamed/part_001;                   *)
(*   - the client's request/response methods and the helpers that send     *)
(*     their HTTP requests (post, postWithStreamedRequest,                 *)
(*     postWithStreamedResponse, postWithProcessPayloadResponse);          *)
(*   - the Linux disk quota manager (New, SetLimits, GetLimits, GetUsage,  *)
(*     findMountPoint, isMountPoint),                                      *)
(*     src/backend/linux_backend/quota_manager/quota_manager.go.           *)
(***************************************************************************)
EXTENDS Integers, Sequences, FiniteSets, TLC

VARIABLES
    calls,      \* per call: which method was called and what it returned
    bodies,     \* per call: the HTTP response body (an io.ReadCloser)
    chans,      \* per call: the channel made by Run/Attach
    tasks,      \* the goroutines started with `go c.streamPayloads(...)`
    received,   \* per call: the items the consumer has taken from the channel
    consumer,   \* per call: whether the caller still reads from the channel
    qm,         \* the *LinuxQuotaManager returned by New (or none yet)
    dfOut,      \* what df wrote to its stdout in New
    qcall,      \* the last quota manager call: its arguments and its outcome
    conn,       \* the connection object: its two http clients
    ccall,      \* the last call of a request/response method and its outcome
    failed,     \* whether some earlier call on the connection returned an error
    fs,         \* the directories of the host, their devices, the working directory
    fcall       \* the findMountPoint call under way: where its walk is, its result

streamVars == <<calls, bodies, chans, tasks, received, consumer>>
quotaVars == <<qm, dfOut, qcall>>
clientVars == <<conn, ccall, failed>>
mountVars == <<fs, fcall>>
vars ==
    <<calls, bodies, chans, tasks, received, consumer, qm, dfOut, qcall, conn, ccall, failed,
      fs, fcall>>

-----------------------------------------------------------------------------
(* Bounds                                                                  *)

\* Most messages one response body yields to the demultiplexer.
MaxWire == 3

\* Longest df output, in characters.
MaxDfLen == 4

\* Most fields of one repquota output that hold a number above 2^32.
MaxBigFields == 2

\* Longest path findMountPoint is called with, in characters.
MaxPathLen == 4

\* Deepest directory of the host's tree (the root has depth 0).
MaxDepth == 2

\* The concurrent Run/Attach calls on the one connection object.
Calls == {1, 2}

-----------------------------------------------------------------------------
(* Sequences                                                               *)

IsPrefix(s, t) == Len(s) <= Len(t) /\ SubSeq(t, 1, Len(s)) = s

Last(s) == s[Len(s)]

SeqsUpTo(S, n) == UNION {[1..k -> S] : k \in 0..n}

-----------------------------------------------------------------------------
(* protocol.ProcessPayload and warden.ProcessStream                        *)

\* An unset optional string field, a nil pointer.
Nil == "nil"

\* An optional number is <<>> when unset and <<n>> when set to n.
Unset == <<>>

\* The wire messages of the lifecycle test (a stdout chunk, a second chunk,
\* here from stderr, and the exit status 42).
Hello == [ProcessId |-> Unset, Source |-> "stdout", Data |-> "hello\n", ExitStatus |-> Unset]

Goodbye == [ProcessId |-> Unset, Source |-> "stderr", Data |-> "goodbye\n", ExitStatus |-> Unset]

Exit42 == [ProcessId |-> Unset, Source |-> Nil, Data |-> Nil, ExitStatus |-> <<42>>]

\* The first message of a /run response: it carries the process id only.
PidMsg == [ProcessId |-> <<7>>, Source |-> Nil, Data |-> Nil, ExitStatus |-> Unset]

WirePayloads == {Hello, Goodbye, Exit42}

\* payload.GetSource(): the enum's zero value (stdin) when the field is unset.
GetSource(payload) == IF payload.Source = Nil THEN "stdin" ELSE payload.Source

\* payload.GetData(): the empty string when the field is unset.
GetData(payload) == IF payload.Data = Nil THEN "" ELSE payload.Data

\* firstResponse.GetProcessId(): 0 when the field is unset.
GetProcessId(payload) == IF payload.ProcessId = Unset THEN 0 ELSE payload.ProcessId[1]

\* The switch of streamPayloads from the protocol's source to warden's.
SourceOf(payload) ==
    CASE GetSource(payload) = "stdin"  -> "ProcessStreamSourceStdin"
      [] GetSource(payload) = "stdout" -> "ProcessStreamSourceStdout"
      [] GetSource(payload) = "stderr" -> "ProcessStreamSourceStderr"

\* streamPayloads with the source switch left out: every chunk keeps the
\* zero value of warden.ProcessStreamSource.
StreamItemNoSwitch(payload) ==
    IF payload.ExitStatus # Unset
    THEN [Source |-> Nil, Data |-> Nil, ExitStatus |-> payload.ExitStatus]
    ELSE [Source |-> Nil, Data |-> GetData(payload), ExitStatus |-> Unset]

\* The warden.ProcessStream that streamPayloads publishes for a payload.
StreamItem(payload) ==
    IF payload.ExitStatus # Unset
    THEN [Source |-> Nil, Data |-> Nil, ExitStatus |-> payload.ExitStatus]
    ELSE [Source |-> SourceOf(payload), Data |-> GetData(payload), ExitStatus |-> Unset]

-----------------------------------------------------------------------------
(* HTTP                                                                    *)

\* What httpClient.Post returns: a transport error, or a response status.
PostOutcomes ==
    {[err |-> TRUE, status |-> 0]} \cup {[err |-> FALSE, status |-> s] : s \in {200, 204, 500}}

\* httpResp.Status
StatusText(status) ==
    CASE status = 200 -> "200 OK"
      [] status = 204 -> "204 No Content"
      [] status = 300 -> "300 Multiple Choices"
      [] status = 500 -> "500 Internal Server Error"

\* A response body (io.ReadCloser): the route it answers, the messages it
\* has yielded so far, in wire order, and who read each of them, how it
\* ended once a read has hit its end, and whether Close was called on it.
NoBody == [route |-> Nil, log |-> <<>>, by |-> <<>>, end |-> Nil, closed |-> FALSE]

NewBody(route) == [route |-> route, log |-> <<>>, by |-> <<>>, end |-> Nil, closed |-> FALSE]

\* The messages of a body that follow the process id message of /run.
Streamed(b) == IF b.route = "/run" /\ b.log # <<>> THEN Tail(b.log) ELSE b.log

\* The messages the server may have put next on the wire.
NextOnWire(b) ==
    IF b.end # Nil THEN {}
    ELSE IF b.route = "/run" /\ b.log = <<>> THEN {PidMsg}
    ELSE IF Len(Streamed(b)) < MaxWire THEN WirePayloads
    ELSE {}

\* What one transport.ReadMessage on a body can return: the next message of
\* the wire, or an error because the body ended (EOF) or broke (ERR).
ReadResults(b) ==
    {[err |-> Nil, msg |-> <<m>>] : m \in NextOnWire(b)}
        \cup {[err |-> e, msg |-> <<>>] : e \in (IF b.end = Nil THEN {"EOF", "ERR"} ELSE {b.end})}

\* The body after the function `who` made that read.
AfterRead(b, r, who) ==
    IF r.err # Nil THEN [b EXCEPT !.end = r.err]
    ELSE [b EXCEPT !.log = Append(@, r.msg[1]), !.by = Append(@, who)]

-----------------------------------------------------------------------------
(* connection.Run, connection.Attach                                       *)

NotCalled ==
    [kind |-> Nil, state |-> "idle", processID |-> 0, pid |-> 0, err |-> Nil, errType |-> Nil,
     sent |-> <<>>, status |-> 0]

\* make(chan warden.ProcessStream), with who sent on it and who closed it.
NoChan == [made |-> FALSE, closed |-> FALSE, senders |-> {}, closers |-> {}, closes |-> 0, lateSends |-> 0]

MadeChan == [NoChan EXCEPT !.made = TRUE]

\* `go c.streamPayloads(respBody, responses)` started twice.
SpawnStreamTwice(c) ==
    <<[pc |-> "read", reader |-> c, stream |-> c, payload |-> <<>>],
      [pc |-> "read", reader |-> c, stream |-> c, payload |-> <<>>]>>

\* `go c.streamPayloads(respBody, responses)` on the first call's body.
SpawnStreamSharedBody(c) ==
    <<[pc |-> "read", reader |-> 1, stream |-> c, payload |-> <<>>]>>

\* `go c.streamPayloads(respBody, responses)`: the goroutines it starts,
\* with the reader and the channel each is given.
SpawnStream(c) ==
    <<[pc |-> "read", reader |-> c, stream |-> c, payload |-> <<>>]>>

\* postWithProcessPayloadResponse: the error it returns, or Nil with the
\* body left open.
ProcessPayloadResponseErr(o) ==
    IF o.err THEN "disconnected"
    ELSE IF o.status # 200 THEN StatusText(o.status)
    ELSE Nil

\* The Go type of that error: what the http client returned, or the value
\* made by errors.New(httpResp.Status).
ProcessPayloadResponseErrType(o) ==
    IF o.err THEN "*url.Error"
    ELSE IF o.status # 200 THEN "*errors.errorString"
    ELSE Nil

\* The HTTP requests postWithProcessPayloadResponse sends, each with the
\* client of the connection it is sent through.
ProcessPayloadRequests(route) == <<[client |-> "httpClient", route |-> route]>>

\* The body after postWithProcessPayloadResponse: none without a response,
\* closed on a status other than 200.
ProcessPayloadResponseBody(route, o) ==
    IF o.err THEN NoBody
    ELSE IF o.status # 200 THEN [NewBody(route) EXCEPT !.closed = TRUE]
    ELSE NewBody(route)

\* What Run returns when the request failed.
RunFailed(o) ==
    [kind |-> "Run", state |-> "error", processID |-> 0, pid |-> 0,
     err |-> ProcessPayloadResponseErr(o), errType |-> ProcessPayloadResponseErrType(o),
     sent |-> ProcessPayloadRequests("/run"), status |-> o.status]

\* Run handing the body on with none of it read.
BodyNotRead(respBody, r) == respBody

\* The body after transport.ReadMessage(respBody, firstResponse) in Run.
BodyAfterFirstRead(respBody, r) == AfterRead(respBody, r, "Run")

Run(c) ==
    /\ calls[c].state = "idle"
    /\ \E o \in PostOutcomes : \E r \in ReadResults(NewBody("/run")) :
        LET err == ProcessPayloadResponseErr(o)
            respBody == ProcessPayloadResponseBody("/run", o)
        IN  IF err # Nil
            THEN /\ calls' = [calls EXCEPT ![c] = RunFailed(o)]
                 /\ bodies' = [bodies EXCEPT ![c] = respBody]
                 /\ UNCHANGED <<chans, tasks>>
            ELSE IF r.err # Nil
            THEN /\ calls' = [calls EXCEPT ![c] =
                                [RunFailed(o) EXCEPT !.err = r.err, !.errType = "transport"]]
                 /\ bodies' = [bodies EXCEPT ![c] = BodyAfterFirstRead(respBody, r)]
                 /\ UNCHANGED <<chans, tasks>>
            ELSE /\ calls' = [calls EXCEPT ![c] =
                                [RunFailed(o) EXCEPT !.state = "ok", !.pid = GetProcessId(r.msg[1])]]
                 /\ bodies' = [bodies EXCEPT ![c] = BodyAfterFirstRead(respBody, r)]
                 /\ chans' = [chans EXCEPT ![c] = MadeChan]
                 /\ tasks' = tasks \o SpawnStream(c)
    /\ UNCHANGED <<received, consumer, quotaVars, clientVars, mountVars>>

\* The process ids Attach is called with: the one of the process that Run
\* started, and one that no process has.
ProcessIDs == {GetProcessId(PidMsg), GetProcessId(PidMsg) + 1}

\* What the server answers to /attach: anything for the running process;
\* for a process id that no process has, it refuses with an error status.
AttachOutcomes(processID) ==
    IF processID = GetProcessId(PidMsg) THEN PostOutcomes
    ELSE {o \in PostOutcomes : o.err \/ o.status = 500}

Attach(c) ==
    /\ calls[c].state = "idle"
    /\ \E processID \in ProcessIDs : \E o \in AttachOutcomes(processID) :
        LET err == ProcessPayloadResponseErr(o)
            respBody == ProcessPayloadResponseBody("/attach", o)
            call == [kind |-> "Attach", state |-> IF err # Nil THEN "error" ELSE "ok",
                     processID |-> processID, pid |-> 0,
                     err |-> err, errType |-> ProcessPayloadResponseErrType(o),
                     sent |-> ProcessPayloadRequests("/attach"), status |-> o.status]
        IN  IF err # Nil
            THEN /\ calls' = [calls EXCEPT ![c] = call]
                 /\ bodies' = [bodies EXCEPT ![c] = respBody]
                 /\ UNCHANGED <<chans, tasks>>
            ELSE /\ calls' = [calls EXCEPT ![c] = call]
                 /\ bodies' = [bodies EXCEPT ![c] = respBody]
                 /\ chans' = [chans EXCEPT ![c] = MadeChan]
                 /\ tasks' = tasks \o SpawnStream(c)
    /\ UNCHANGED <<received, consumer, quotaVars, clientVars, mountVars>>

-----------------------------------------------------------------------------
(* connection.streamPayloads, one goroutine per entry of tasks             *)

\* A failed read that returns from streamPayloads at once.
OnReadErrorReturn == "done"

\* Where a failed transport.ReadMessage leads: `break`, to close(stream).
OnReadError == "close"

\* The loop without the `break` after the exit status was sent.
AfterSendNoBreak(payload) == "read"

\* Where the loop goes after a send: `break` once the exit status was sent.
AfterSend(payload) == IF payload.ExitStatus # Unset THEN "close" ELSE "read"

\* transport.ReadMessage(reader, payload) and the branch on its error.
SPRead(t) ==
    /\ t \in DOMAIN tasks
    /\ tasks[t].pc = "read"
    /\ \E r \in ReadResults(bodies[tasks[t].reader]) :
        /\ bodies' = [bodies EXCEPT ![tasks[t].reader] = AfterRead(@, r, "streamPayloads")]
        /\ tasks' = [tasks EXCEPT ![t] =
                        IF r.err # Nil
                        THEN [@ EXCEPT !.pc = OnReadError]
                        ELSE [@ EXCEPT !.pc = "send", !.payload = r.msg]]
    /\ UNCHANGED <<calls, chans, received, consumer, quotaVars, clientVars, mountVars>>

\* `stream <- warden.ProcessStream{...}` on the unbuffered channel: the send
\* completes when the consumer receives; on a closed channel it panics.
SPSend(t) ==
    /\ t \in DOMAIN tasks
    /\ tasks[t].pc = "send"
    /\ LET c == tasks[t].stream
           payload == tasks[t].payload[1]
       IN  IF chans[c].closed
           THEN /\ chans' = [chans EXCEPT ![c].lateSends = @ + 1]
                /\ tasks' = [tasks EXCEPT ![t].pc = "panic"]
                /\ UNCHANGED received
           ELSE /\ consumer[c] = "reading"
                /\ chans' = [chans EXCEPT ![c].senders = @ \cup {t}]
                /\ received' = [received EXCEPT ![c] = Append(@, StreamItem(payload))]
                /\ tasks' = [tasks EXCEPT ![t].pc = AfterSend(payload), ![t].payload = <<>>]
    /\ UNCHANGED <<calls, bodies, consumer, quotaVars, clientVars, mountVars>>

\* close(stream)
SPClose(t) ==
    /\ t \in DOMAIN tasks
    /\ tasks[t].pc = "close"
    /\ chans' = [chans EXCEPT ![tasks[t].stream] =
                    [@ EXCEPT !.closed = TRUE, !.closers = @ \cup {t}, !.closes = @ + 1]]
    /\ tasks' = [tasks EXCEPT ![t].pc = IF chans[tasks[t].stream].closed THEN "panic" ELSE "closeBody"]
    /\ UNCHANGED <<calls, bodies, received, consumer, quotaVars, clientVars, mountVars>>

\* reader.Close()
SPCloseBody(t) ==
    /\ t \in DOMAIN tasks
    /\ tasks[t].pc = "closeBody"
    /\ bodies' = [bodies EXCEPT ![tasks[t].reader].closed = TRUE]
    /\ tasks' = [tasks EXCEPT ![t].pc = "done"]
    /\ UNCHANGED <<calls, chans, received, consumer, quotaVars, clientVars, mountVars>>

streamPayloads(t) == SPRead(t) \/ SPSend(t) \/ SPClose(t) \/ SPCloseBody(t)

-----------------------------------------------------------------------------
(* The caller of Run/Attach as consumer of the channel                     *)

\* The caller stops receiving (lifecycle_test.go reads three items and
\* returns; it drops the channel of Run altogether before Attach).
ConsumerStop(c) ==
    /\ calls[c].state = "ok"
    /\ consumer[c] = "reading"
    /\ consumer' = [consumer EXCEPT ![c] = "stopped"]
    /\ UNCHANGED <<calls, bodies, chans, tasks, received, quotaVars, clientVars, mountVars>>

\* A receive on the closed channel: `for chunk := range stream` ends.
ConsumerSeesClose(c) ==
    /\ consumer[c] = "reading"
    /\ chans[c].closed
    /\ consumer' = [consumer EXCEPT ![c] = "sawClose"]
    /\ UNCHANGED <<calls, bodies, chans, tasks, received, quotaVars, clientVars, mountVars>>

-----------------------------------------------------------------------------
(* connection: New and the helpers that send one HTTP request              *)

\* The connection New returns: one client whose transport keeps
\* connections alive (the default) and one whose transport does not.
NewConnection ==
    [httpClient |-> [DisableKeepAlives |-> FALSE],
     noKeepaliveClient |-> [DisableKeepAlives |-> TRUE]]

\* What a Post of the request/response methods returns: as PostOutcomes,
\* or a redirection status.
ClientOutcomes == PostOutcomes \cup {[err |-> FALSE, status |-> 300]}

\* What transport.ReadMessage(httpResp.Body, res) returns on a body that
\* holds one of msgs, is empty (EOF) or is malformed (ERR).
ResponseReads(msgs) ==
    {[err |-> Nil, msg |-> <<m>>] : m \in msgs} \cup {[err |-> e, msg |-> <<>>] : e \in {"EOF", "ERR"}}

\* post that sends the request once more when the first attempt failed.
postResending(route, req, o, rd) ==
    LET request == [client |-> "httpClient", route |-> route, msg |-> req]
    IN  IF o.err
        THEN [sent |-> <<request, request>>, status |-> 0, body |-> "none",
              err |-> "disconnected", res |-> <<>>]
        ELSE IF o.status < 200 \/ o.status > 299
        THEN [sent |-> <<request, request>>, status |-> o.status, body |-> "closed",
              err |-> StatusText(o.status), res |-> <<>>]
        ELSE [sent |-> <<request>>, status |-> o.status, body |-> "closed",
              err |-> rd.err, res |-> rd.msg]

\* post(route, req, res): the requests sent, the status received, what
\* became of the response body (none, open, closed), the error returned and
\* the message decoded into res.
post(route, req, o, rd) ==
    LET request == [client |-> "httpClient", route |-> route, msg |-> req]
    IN  IF o.err
        THEN [sent |-> <<request>>, status |-> 0, body |-> "none",
              err |-> "disconnected", res |-> <<>>]
        ELSE IF o.status < 200 \/ o.status > 299
        THEN [sent |-> <<request>>, status |-> o.status, body |-> "closed",
              err |-> StatusText(o.status), res |-> <<>>]
        ELSE [sent |-> <<request>>, status |-> o.status, body |-> "closed",
              err |-> rd.err, res |-> rd.msg]

\* postWithStreamedRequest(u, reader): the response body is not read and
\* not closed.
postWithStreamedRequest(route, o) ==
    LET request == [client |-> "noKeepaliveClient", route |-> route, msg |-> [reader |-> "tar"]]
    IN  IF o.err
        THEN [sent |-> <<request>>, status |-> 0, body |-> "none",
              err |-> "disconnected", res |-> <<>>]
        ELSE IF o.status # 200
        THEN [sent |-> <<request>>, status |-> o.status, body |-> "open",
              err |-> StatusText(o.status), res |-> <<>>]
        ELSE [sent |-> <<request>>, status |-> o.status, body |-> "open",
              err |-> Nil, res |-> <<>>]

\* postWithStreamedResponse(u): on status 200 the open body is returned.
postWithStreamedResponse(route, o) ==
    LET request == [client |-> "noKeepaliveClient", route |-> route, msg |-> [reader |-> Nil]]
    IN  IF o.err
        THEN [sent |-> <<request>>, status |-> 0, body |-> "none",
              err |-> "disconnected", res |-> <<>>]
        ELSE IF o.status # 200
        THEN [sent |-> <<request>>, status |-> o.status, body |-> "closed",
              err |-> StatusText(o.status), res |-> <<>>]
        ELSE [sent |-> <<request>>, status |-> o.status, body |-> "open",
              err |-> Nil, res |-> <<>>]

\* A method call: its arguments, what its helper did (the requests sent,
\* the status and the message received, the state of the response body)
\* and what it returns to its caller; handed tells whether the caller got
\* the response body.
MethodResult(method, args, http, ret, handed) ==
    [method |-> method, args |-> args, sent |-> http.sent, status |-> http.status,
     res |-> http.res, body |-> http.body, handed |-> handed, err |-> http.err, ret |-> ret]

-----------------------------------------------------------------------------
(* connection: the limit methods                                           *)

\* res.GetRate() and the like: 0 when the field is unset.
GetUint64(field) == IF field = Unset THEN 0 ELSE field[1]

\* The container the calls are made on.
Handle == "some-handle"

\* warden.BandwidthLimits{}
ZeroBandwidthLimits ==
    [RateInBytesPerSecond |-> 0, BurstRateInBytesPerSecond |-> 0]

\* protocol.LimitBandwidthRequest as LimitBandwidth fills it.
LimitBandwidthRequest(handle, limits) ==
    [Handle |-> handle, Rate |-> <<limits.RateInBytesPerSecond>>,
     Burst |-> <<limits.BurstRateInBytesPerSecond>>]

\* protocol.LimitBandwidthRequest as CurrentBandwidthLimits fills it.
CurrentBandwidthLimitsRequest(handle) ==
    [Handle |-> handle, Rate |-> Unset, Burst |-> Unset]

LimitBandwidth(handle, limits, o, rd) ==
    LET http == post("/limit_bandwidth", LimitBandwidthRequest(handle, limits), o, rd)
    IN  MethodResult("LimitBandwidth", [handle |-> handle, limits |-> limits], http,
            IF http.err # Nil THEN ZeroBandwidthLimits
            ELSE [RateInBytesPerSecond |-> GetUint64(http.res[1].Rate),
                  BurstRateInBytesPerSecond |-> GetUint64(http.res[1].Burst)],
            FALSE)

CurrentBandwidthLimits(handle, o, rd) ==
    LET http == post("/limit_bandwidth", CurrentBandwidthLimitsRequest(handle), o, rd)
    IN  MethodResult("CurrentBandwidthLimits", [handle |-> handle], http,
            IF http.err # Nil THEN ZeroBandwidthLimits
            ELSE [RateInBytesPerSecond |-> GetUint64(http.res[1].Rate),
                  BurstRateInBytesPerSecond |-> GetUint64(http.res[1].Burst)],
            FALSE)

\* warden.CPULimits{}
ZeroCPULimits ==
    [LimitInShares |-> 0]

\* protocol.LimitCpuRequest as LimitCPU fills it.
LimitCpuRequest(handle, limits) ==
    [Handle |-> handle, LimitInShares |-> <<limits.LimitInShares>>]

\* protocol.LimitCpuRequest as CurrentCPULimits fills it.
CurrentCPULimitsRequest(handle) ==
    [Handle |-> handle, LimitInShares |-> Unset]

LimitCPU(handle, limits, o, rd) ==
    LET http == post("/limit_cpu", LimitCpuRequest(handle, limits), o, rd)
    IN  MethodResult("LimitCPU", [handle |-> handle, limits |-> limits], http,
            IF http.err # Nil THEN ZeroCPULimits
            ELSE [LimitInShares |-> GetUint64(http.res[1].LimitInShares)],
            FALSE)

CurrentCPULimits(handle, o, rd) ==
    LET http == post("/limit_cpu", CurrentCPULimitsRequest(handle), o, rd)
    IN  MethodResult("CurrentCPULimits", [handle |-> handle], http,
            IF http.err # Nil THEN ZeroCPULimits
            ELSE [LimitInShares |-> GetUint64(http.res[1].LimitInShares)],
            FALSE)

\* warden.DiskLimits{}
ZeroDiskLimits ==
    [BlockSoft |-> 0, BlockHard |-> 0, InodeSoft |-> 0, InodeHard |-> 0,
         ByteSoft |-> 0, ByteHard |-> 0]

\* protocol.LimitDiskRequest as LimitDisk fills it.
LimitDiskRequest(handle, limits) ==
    [Handle |-> handle, BlockSoft |-> <<limits.BlockSoft>>,
     BlockHard |-> <<limits.BlockHard>>, InodeSoft |-> <<limits.InodeSoft>>,
     InodeHard |-> <<limits.InodeHard>>, ByteSoft |-> <<limits.ByteSoft>>,
     ByteHard |-> <<limits.ByteHard>>]

\* protocol.LimitDiskRequest as CurrentDiskLimits fills it.
CurrentDiskLimitsRequest(handle) ==
    [Handle |-> handle, BlockSoft |-> Unset, BlockHard |-> Unset,
     InodeSoft |-> Unset, InodeHard |-> Unset, ByteSoft |-> Unset,
     ByteHard |-> Unset]

LimitDisk(handle, limits, o, rd) ==
    LET http == post("/limit_disk", LimitDiskRequest(handle, limits), o, rd)
    IN  MethodResult("LimitDisk", [handle |-> handle, limits |-> limits], http,
            IF http.err # Nil THEN ZeroDiskLimits
            ELSE [BlockSoft |-> GetUint64(http.res[1].BlockSoft),
                  BlockHard |-> GetUint64(http.res[1].BlockHard),
                  InodeSoft |-> GetUint64(http.res[1].InodeSoft),
                  InodeHard |-> GetUint64(http.res[1].InodeHard),
                  ByteSoft |-> GetUint64(http.res[1].ByteSoft),
                  ByteHard |-> GetUint64(http.res[1].ByteHard)],
            FALSE)

CurrentDiskLimits(handle, o, rd) ==
    LET http == post("/limit_disk", CurrentDiskLimitsRequest(handle), o, rd)
    IN  MethodResult("CurrentDiskLimits", [handle |-> handle], http,
            IF http.err # Nil THEN ZeroDiskLimits
            ELSE [BlockSoft |-> GetUint64(http.res[1].BlockSoft),
                  BlockHard |-> GetUint64(http.res[1].BlockHard),
                  InodeSoft |-> GetUint64(http.res[1].InodeSoft),
                  InodeHard |-> GetUint64(http.res[1].InodeHard),
                  ByteSoft |-> GetUint64(http.res[1].ByteSoft),
                  ByteHard |-> GetUint64(http.res[1].ByteHard)],
            FALSE)

\* warden.MemoryLimits{}
ZeroMemoryLimits ==
    [LimitInBytes |-> 0]

\* LimitMemory with a zero limit left out of the request.
LimitMemoryRequestOmitZero(handle, limits) ==
    [Handle |-> handle,
     LimitInBytes |-> IF limits.LimitInBytes = 0 THEN Unset ELSE <<limits.LimitInBytes>>]

\* protocol.LimitMemoryRequest as LimitMemory fills it.
LimitMemoryRequest(handle, limits) ==
    [Handle |-> handle, LimitInBytes |-> <<limits.LimitInBytes>>]

\* protocol.LimitMemoryRequest as CurrentMemoryLimits fills it.
CurrentMemoryLimitsRequest(handle) ==
    [Handle |-> handle, LimitInBytes |-> Unset]

LimitMemory(handle, limits, o, rd) ==
    LET http == post("/limit_memory", LimitMemoryRequest(handle, limits), o, rd)
    IN  MethodResult("LimitMemory", [handle |-> handle, limits |-> limits], http,
            IF http.err # Nil THEN ZeroMemoryLimits
            ELSE [LimitInBytes |-> GetUint64(http.res[1].LimitInBytes)],
            FALSE)

CurrentMemoryLimits(handle, o, rd) ==
    LET http == post("/limit_memory", CurrentMemoryLimitsRequest(handle), o, rd)
    IN  MethodResult("CurrentMemoryLimits", [handle |-> handle], http,
            IF http.err # Nil THEN ZeroMemoryLimits
            ELSE [LimitInBytes |-> GetUint64(http.res[1].LimitInBytes)],
            FALSE)

\* The limits the set methods are called with.
BandwidthSamples == [RateInBytesPerSecond : {0, 5}, BurstRateInBytesPerSecond : {0, 9}]

CPUSamples == [LimitInShares : {0, 5}]

ClientDiskSamples ==
    [BlockSoft : {0, 1}, BlockHard : {0, 2}, InodeSoft : {3}, InodeHard : {0, 4},
     ByteSoft : {5}, ByteHard : {0, 6}]

MemorySamples == [LimitInBytes : {0, 5}]

\* The response messages of the server: fields are set or not.
LimitBandwidthResponses == [Rate : {Unset, <<5>>}, Burst : {Unset, <<0>>, <<9>>}]

LimitCpuResponses == [LimitInShares : {Unset, <<0>>, <<5>>}]

LimitDiskResponses ==
    [BlockSoft : {Unset, <<1>>}, BlockHard : {<<2>>}, InodeSoft : {Unset, <<3>>},
     InodeHard : {<<4>>}, ByteSoft : {Unset, <<5>>}, ByteHard : {<<0>>}]

LimitMemoryResponses == [LimitInBytes : {Unset, <<0>>, <<5>>}]

-----------------------------------------------------------------------------
(* connection: the other request/response methods, StreamIn, StreamOut     *)

\* The methods that post one request and decode one response, with the
\* route of each; the content of their messages is left open.
Routes ==
    [Ping |-> "/ping", Capacity |-> "/capacity", Create |-> "/create", Stop |-> "/stop",
     Destroy |-> "/destroy", NetIn |-> "/net_in", NetOut |-> "/net_out", List |-> "/list",
     Info |-> "/info"]

\* The response message of these methods.
Responses == {[ok |-> TRUE]}

\* Ping, Capacity, Create, Stop, Destroy, NetIn, NetOut, List, Info.
Simple(method, o, rd) ==
    LET http == post(Routes[method], [Handle |-> Handle], o, rd)
    IN  MethodResult(method, [handle |-> Handle], http, http.res, FALSE)

\* StreamIn(handle, dstPath, reader)
StreamIn(handle, dstPath, o) ==
    LET http == postWithStreamedRequest("/stream_in?destination=" \o dstPath \o "&handle=" \o handle, o)
    IN  MethodResult("StreamIn", [handle |-> handle], http, <<>>, FALSE)

\* StreamOut(handle, srcPath): the caller gets the body when err is nil.
StreamOut(handle, srcPath, o) ==
    LET http == postWithStreamedResponse("/stream_out?handle=" \o handle \o "&source=" \o srcPath, o)
    IN  MethodResult("StreamOut", [handle |-> handle], http, <<>>, http.err = Nil)

\* No method call is under way.
NoClientCall == [method |-> Nil]

\* A method is called and returns.
ClientCall(result) ==
    /\ ccall = NoClientCall
    /\ ccall' = result
    /\ UNCHANGED <<conn, failed, streamVars, quotaVars, mountVars>>

CallLimitBandwidth ==
    \E limits \in BandwidthSamples, o \in ClientOutcomes, rd \in ResponseReads(LimitBandwidthResponses) :
        ClientCall(LimitBandwidth(Handle, limits, o, rd))

CallCurrentBandwidthLimits ==
    \E o \in ClientOutcomes, rd \in ResponseReads(LimitBandwidthResponses) :
        ClientCall(CurrentBandwidthLimits(Handle, o, rd))

CallLimitCPU ==
    \E limits \in CPUSamples, o \in ClientOutcomes, rd \in ResponseReads(LimitCpuResponses) :
        ClientCall(LimitCPU(Handle, limits, o, rd))

CallCurrentCPULimits ==
    \E o \in ClientOutcomes, rd \in ResponseReads(LimitCpuResponses) :
        ClientCall(CurrentCPULimits(Handle, o, rd))

CallLimitDisk ==
    \E limits \in ClientDiskSamples, o \in ClientOutcomes, rd \in ResponseReads(LimitDiskResponses) :
        ClientCall(LimitDisk(Handle, limits, o, rd))

CallCurrentDiskLimits ==
    \E o \in ClientOutcomes, rd \in ResponseReads(LimitDiskResponses) :
        ClientCall(CurrentDiskLimits(Handle, o, rd))

CallLimitMemory ==
    \E limits \in MemorySamples, o \in ClientOutcomes, rd \in ResponseReads(LimitMemoryResponses) :
        ClientCall(LimitMemory(Handle, limits, o, rd))

CallCurrentMemoryLimits ==
    \E o \in ClientOutcomes, rd \in ResponseReads(LimitMemoryResponses) :
        ClientCall(CurrentMemoryLimits(Handle, o, rd))

CallSimple ==
    \E method \in DOMAIN Routes, o \in ClientOutcomes, rd \in ResponseReads(Responses) :
        ClientCall(Simple(method, o, rd))

CallStreamIn == \E o \in ClientOutcomes : ClientCall(StreamIn(Handle, "/tmp", o))

CallStreamOut == \E o \in ClientOutcomes : ClientCall(StreamOut(Handle, "/tmp", o))

\* The caller takes the result; the connection is used for the next call.
ClientReturn ==
    /\ ccall # NoClientCall
    /\ ccall' = NoClientCall
    /\ failed' = (failed \/ ccall.err # Nil)
    /\ UNCHANGED <<conn, streamVars, quotaVars, mountVars>>

-----------------------------------------------------------------------------
(* uint64                                                                  *)

\* A uint64 is kept as seven digits, least significant first: six digits
\* of ten bits (0..1023) and a top digit of four bits (0..15).
U64(n) == <<n % 1024, (n \div 1024) % 1024, (n \div 1048576) % 1024, 0, 0, 0, 0>>

U64Max == <<1023, 1023, 1023, 1023, 1023, 1023, 15>>

RECURSIVE AddFrom(_, _, _, _)
AddFrom(a, b, i, carry) ==
    IF i > 7 THEN <<>>
    ELSE LET sum == a[i] + b[i] + carry
             base == IF i = 7 THEN 16 ELSE 1024
         IN  <<sum % base>> \o AddFrom(a, b, i + 1, sum \div base)

\* a + b in uint64 arithmetic: the carry out of the top digit is dropped.
Add64(a, b) == AddFrom(a, b, 1, 0)

\* The remainder of the digits above position i when divided by d.
RECURSIVE RemAbove(_, _, _)
RemAbove(a, d, i) ==
    IF i >= 7 THEN 0 ELSE (RemAbove(a, d, i + 1) * 1024 + a[i + 1]) % d

\* a / d in uint64 arithmetic, for a divisor d of at most 1024.
Div64(a, d) == [i \in 1..7 |-> (RemAbove(a, d, i) * 1024 + a[i]) \div d]

\* a % d
Rem64(a, d) == RemAbove(a, d, 0)

\* v < 2^32: whether a scanned value fits a uint32.
FitsUint32(v) == v[4] < 4 /\ v[5] = 0 /\ v[6] = 0 /\ v[7] = 0

-----------------------------------------------------------------------------
(* strings, as sequences of characters                                     *)

\* The part of s after its last occurrence of the character sep.
RECURSIVE AfterLast(_, _)
AfterLast(s, sep) ==
    IF s = <<>> THEN <<>>
    ELSE IF Last(s) = sep THEN <<>>
    ELSE Append(AfterLast(SubSeq(s, 1, Len(s) - 1), sep), Last(s))

\* strings.Split(s, sep) for a one-character sep: the pieces between the
\* occurrences of sep, empty pieces included.
RECURSIVE Split(_, _)
Split(s, sep) ==
    IF \A i \in 1..Len(s) : s[i] # sep THEN <<s>>
    ELSE LET tail == AfterLast(s, sep)
         IN  Append(Split(SubSeq(s, 1, Len(s) - Len(tail) - 1), sep), tail)

RECURSIVE TrimLeft(_, _)
TrimLeft(s, c) == IF s # <<>> /\ Head(s) = c THEN TrimLeft(Tail(s), c) ELSE s

RECURSIVE TrimRight(_, _)
TrimRight(s, c) ==
    IF s # <<>> /\ Last(s) = c THEN TrimRight(SubSeq(s, 1, Len(s) - 1), c) ELSE s

\* strings.Trim(s, c) for a one-character cutset.
Trim(s, c) == TrimRight(TrimLeft(s, c), c)

-----------------------------------------------------------------------------
(* quota_manager.New                                                       *)

QUOTA_BLOCK_SIZE == 1024

\* What runner.Run returns for a command (nil, or the error of a command
\* that exited with a status other than 0) and what runner.Start returns
\* (nil, or the error of a command that could not be started).
RunnerOutcomes == {Nil, "exit status 1"}

\* The characters of a df output: a letter, space, tab, newline.
DfChars == {"a", " ", "\t", "\n"}

DfOutputs == SeqsUpTo(DfChars, MaxDfLen)

\* New without the strings.Trim of the last word.
MountPointUntrimmed(out) == Last(Split(out, " "))

\* mountPoint as New computes it from df's output.
MountPointOf(out) == Trim(Last(Split(out, " ")), "\n")

New ==
    /\ ~qm.made
    /\ qcall.op = Nil
    /\ \E out \in DfOutputs : \E err \in RunnerOutcomes :
        IF err # Nil
        THEN /\ qcall' = [op |-> "New", runs |-> 1, exit |-> 1, err |-> err]
             /\ UNCHANGED <<qm, dfOut>>
        ELSE /\ qm' = [made |-> TRUE, mountPoint |-> MountPointOf(out)]
             /\ dfOut' = out
             /\ qcall' = [op |-> "New", runs |-> 1, exit |-> 0, err |-> Nil]
    /\ UNCHANGED <<streamVars, clientVars, mountVars>>

-----------------------------------------------------------------------------
(* LinuxQuotaManager.SetLimits                                             *)

\* The byte limits SetLimits is tried on: 0, values around one block, and
\* the values around 2^64 - 1024.
ByteSamples ==
    {U64(0), U64(1), U64(1024), U64(1025),
     <<0, 1023, 1023, 1023, 1023, 1023, 15>>,
     <<1, 1023, 1023, 1023, 1023, 1023, 15>>,
     U64Max}

BlockSamples == {U64(0), U64(5)}

DiskLimits ==
    [BlockSoft : BlockSamples, BlockHard : BlockSamples,
     InodeSoft : {U64(900)}, InodeHard : {U64(950)},
     ByteSoft : ByteSamples, ByteHard : {U64(0), U64(2049), U64Max}]

\* (bytes + QUOTA_BLOCK_SIZE - 1) / QUOTA_BLOCK_SIZE, in uint64.
BlocksOf(bytes) == Div64(Add64(bytes, U64(QUOTA_BLOCK_SIZE - 1)), QUOTA_BLOCK_SIZE)

\* The limits after the two `if limits.Byte... != 0` statements.
ConvertedLimits(limits) ==
    [limits EXCEPT
        !.BlockSoft = IF limits.ByteSoft # U64(0) THEN BlocksOf(limits.ByteSoft) ELSE @,
        !.BlockHard = IF limits.ByteHard # U64(0) THEN BlocksOf(limits.ByteHard) ELSE @]

\* The setquota command line.
SetquotaCmd(uid, limits, mountPoint) ==
    [Path |-> "setquota", uid |-> uid,
     blockSoft |-> limits.BlockSoft, blockHard |-> limits.BlockHard,
     inodeSoft |-> limits.InodeSoft, inodeHard |-> limits.InodeHard,
     mountPoint |-> mountPoint]

SetLimits ==
    /\ qm.made
    /\ qcall.op = Nil
    /\ \E limits \in DiskLimits : \E err \in RunnerOutcomes :
        qcall' = [op |-> "SetLimits", limits |-> limits,
                  cmd |-> SetquotaCmd(1000, ConvertedLimits(limits), qm.mountPoint),
                  runs |-> 1, exit |-> IF err = Nil THEN 0 ELSE 1, err |-> err]
    /\ UNCHANGED <<qm, dfOut, streamVars, clientVars, mountVars>>

-----------------------------------------------------------------------------
(* LinuxQuotaManager.GetLimits, LinuxQuotaManager.GetUsage                 *)

\* The line of the spec: 0 500 1000 1200 0 300 900 950.
ExampleFields == <<U64(0), U64(500), U64(1000), U64(1200), U64(0), U64(300), U64(900), U64(950)>>

\* 2^32 + i: a number of field i that no uint32 holds.
BigField(i) == <<i, 0, 0, 4, 0, 0, 0>>

\* A word of repquota's output that is no number.
NotANumber == <<>>

\* What repquota writes, as the fields, the white space between them and
\* whether a newline follows the last field: eight numbers, each the
\* example's or a big one, separated by one kind of white space and
\* followed by a newline.
RepquotaOutputs ==
    {[fields |-> [i \in 1..8 |-> IF i \in big THEN BigField(i) ELSE ExampleFields[i]],
      sep |-> sep, eol |-> TRUE] : big \in {b \in SUBSET (1..8) : Cardinality(b) <= MaxBigFields},
                                  sep \in {" ", "\t", "\n"}}

\* What a repquota that fails or finds no entry writes: nothing, three or
\* eight fields of the example with or without a newline at the end, or a
\* line with a word in place of a number.
ShortOutputs ==
    {[fields |-> SubSeq(ExampleFields, 1, n), sep |-> " ", eol |-> eol] :
        n \in {0, 3, 8}, eol \in BOOLEAN}
        \cup {[fields |-> [ExampleFields EXCEPT ![3] = NotANumber], sep |-> " ", eol |-> TRUE]}

\* The runs of repquota once started: what it wrote and its exit status.
RepquotaRuns ==
    {[out |-> out, exit |-> 0] : out \in RepquotaOutputs \cup ShortOutputs}
        \cup {[out |-> out, exit |-> 1] : out \in ShortOutputs}

\* The output field of a call whose repquota was not started.
NoOutput == [fields |-> <<>>, sep |-> Nil, eol |-> FALSE]

\* The arguments of Fscanf in GetLimits.
LimitsTargets ==
    <<[var |-> "skip", uint32 |-> TRUE], [var |-> "skip", uint32 |-> TRUE],
      [var |-> "BlockSoft", uint32 |-> FALSE], [var |-> "BlockHard", uint32 |-> FALSE],
      [var |-> "skip", uint32 |-> TRUE], [var |-> "skip", uint32 |-> TRUE],
      [var |-> "InodeSoft", uint32 |-> FALSE], [var |-> "InodeHard", uint32 |-> FALSE]>>

\* The arguments of Fscanf in GetUsage.
UsageTargets ==
    <<[var |-> "skip", uint32 |-> TRUE], [var |-> "BytesUsed", uint32 |-> FALSE],
      [var |-> "skip", uint32 |-> TRUE], [var |-> "skip", uint32 |-> TRUE],
      [var |-> "skip", uint32 |-> TRUE], [var |-> "InodesUsed", uint32 |-> FALSE],
      [var |-> "skip", uint32 |-> TRUE], [var |-> "skip", uint32 |-> TRUE]>>

\* fmt.Fscanf(repR, "%d %d %d %d %d %d %d %d", ...) on the read end of a
\* pipe whose write end the caller holds open, so that a read past what
\* repquota wrote waits for ever. The verbs are scanned in order into their
\* arguments. A newline where a number is to begin, a word that is no
\* number, or a number too wide for its argument ends the scan with an
\* error and leaves the remaining arguments as they were. A number is
\* complete once the character after it was read: the scan waits (blocked)
\* when the output ends with a number, or holds nothing at all.
RECURSIVE Fscanf(_, _, _, _)
Fscanf(out, targets, i, vals) ==
    IF i > Len(targets) THEN [vals |-> vals, err |-> Nil, blocked |-> FALSE]
    ELSE IF i > Len(out.fields)
    THEN IF out.eol
         THEN [vals |-> vals, err |-> "unexpected newline", blocked |-> FALSE]
         ELSE [vals |-> vals, err |-> Nil, blocked |-> TRUE]
    ELSE IF i > 1 /\ out.sep = "\n"
    THEN [vals |-> vals, err |-> "unexpected newline", blocked |-> FALSE]
    ELSE IF out.fields[i] = NotANumber
    THEN [vals |-> vals, err |-> "expected integer", blocked |-> FALSE]
    ELSE IF i = Len(out.fields) /\ ~out.eol
    THEN [vals |-> vals, err |-> Nil, blocked |-> TRUE]
    ELSE IF targets[i].uint32 /\ ~FitsUint32(out.fields[i])
    THEN [vals |-> vals, err |-> "unsigned integer overflow", blocked |-> FALSE]
    ELSE Fscanf(out, targets, i + 1, [vals EXCEPT ![targets[i].var] = out.fields[i]])

\* backend.DiskLimits{}, with the scratch variable of the scan.
ZeroLimits ==
    [skip |-> U64(0), BlockSoft |-> U64(0), BlockHard |-> U64(0), InodeSoft |-> U64(0),
     InodeHard |-> U64(0), ByteSoft |-> U64(0), ByteHard |-> U64(0)]

\* backend.ContainerDiskStat{}, with the scratch variable of the scan.
ZeroUsage == [skip |-> U64(0), BytesUsed |-> U64(0), InodesUsed |-> U64(0)]

\* What the caller gets: the struct without the scratch variable.
Returned(vals) == [f \in (DOMAIN vals) \ {"skip"} |-> vals[f]]

\* What os.Pipe() returns: the two ends, or an error.
PipeOutcomes == {Nil, "too many open files"}

\* The pipe of a call whose os.Pipe failed: there are no ends.
NoPipe == [r |-> "none", w |-> "none"]

\* repR, repW as os.Pipe returns them.
NewPipe == [r |-> "open", w |-> "open"]

\* The function returning with `defer repW.Close()` left out.
DeferredCloseReadOnly(pipe) == [pipe EXCEPT !.r = "closed"]

\* `defer repR.Close()` and `defer repW.Close()` run when the function
\* returns.
DeferredClose(pipe) == [r |-> "closed", w |-> "closed"]

\* GetLimits and GetUsage but for the arguments of the scan and the zero
\* value of the result. A call whose scan waits for ever does not return:
\* its deferred calls never run.
Repquota(op, targets, zero) ==
    \E pipeErr \in PipeOutcomes : \E err \in RunnerOutcomes : \E run \in RepquotaRuns :
        LET scan == Fscanf(run.out, targets, 1, zero)
        IN  qcall' =
                IF pipeErr # Nil
                THEN [op |-> op, started |-> FALSE, out |-> NoOutput, exit |-> 0, runs |-> 0,
                      mountPoint |-> qm.mountPoint, pipe |-> NoPipe, returned |-> TRUE,
                      ret |-> Returned(zero), err |-> pipeErr]
                ELSE IF err # Nil
                THEN [op |-> op, started |-> FALSE, out |-> NoOutput, exit |-> 0, runs |-> 1,
                      mountPoint |-> qm.mountPoint, pipe |-> DeferredClose(NewPipe),
                      returned |-> TRUE, ret |-> Returned(zero), err |-> err]
                ELSE IF scan.blocked
                THEN [op |-> op, started |-> TRUE, out |-> run.out, exit |-> run.exit, runs |-> 1,
                      mountPoint |-> qm.mountPoint, pipe |-> NewPipe,
                      returned |-> FALSE, ret |-> Returned(zero), err |-> Nil]
                ELSE [op |-> op, started |-> TRUE, out |-> run.out, exit |-> run.exit, runs |-> 1,
                      mountPoint |-> qm.mountPoint, pipe |-> DeferredClose(NewPipe),
                      returned |-> TRUE, ret |-> Returned(scan.vals), err |-> scan.err]

GetLimits ==
    /\ qm.made
    /\ qcall.op = Nil
    /\ Repquota("GetLimits", LimitsTargets, ZeroLimits)
    /\ UNCHANGED <<qm, dfOut, streamVars, clientVars, mountVars>>

GetUsage ==
    /\ qm.made
    /\ qcall.op = Nil
    /\ Repquota("GetUsage", UsageTargets, ZeroUsage)
    /\ UNCHANGED <<qm, dfOut, streamVars, clientVars, mountVars>>

-----------------------------------------------------------------------------
(* path.Dir                                                                *)

\* The characters of a path.
PathChars == {"/", "a", "."}

Paths == SeqsUpTo(PathChars, MaxPathLen)

\* strings.Join(elems, "/")
RECURSIVE Join(_)
Join(elems) ==
    IF elems = <<>> THEN <<>>
    ELSE IF Len(elems) = 1 THEN elems[1]
    ELSE Join(SubSeq(elems, 1, Len(elems) - 1)) \o <<"/">> \o Last(elems)

\* The loop of path.Clean over the elements between the slashes, from
\* element i on: empty elements and "." are dropped, ".." removes the
\* element before it, or is kept at the front of a path that is not rooted
\* (dotdot counts those), or is dropped at the root; out is what was kept.
RECURSIVE CleanFrom(_, _, _, _, _)
CleanFrom(elems, i, out, dotdot, rooted) ==
    IF i > Len(elems) THEN out
    ELSE IF elems[i] = <<>> \/ elems[i] = <<".">>
    THEN CleanFrom(elems, i + 1, out, dotdot, rooted)
    ELSE IF elems[i] = <<".", ".">>
    THEN IF Len(out) > dotdot
         THEN CleanFrom(elems, i + 1, SubSeq(out, 1, Len(out) - 1), dotdot, rooted)
         ELSE IF ~rooted
         THEN CleanFrom(elems, i + 1, Append(out, elems[i]), dotdot + 1, rooted)
         ELSE CleanFrom(elems, i + 1, out, dotdot, rooted)
    ELSE CleanFrom(elems, i + 1, Append(out, elems[i]), dotdot, rooted)

\* path.Clean(p)
Clean(p) ==
    IF p = <<>> THEN <<".">>
    ELSE LET rooted == p[1] = "/"
             out == CleanFrom(Split(p, "/"), 1, <<>>, 0, rooted)
         IN  IF rooted THEN <<"/">> \o Join(out)
             ELSE IF out = <<>> THEN <<".">>
             ELSE Join(out)

\* path.Dir(p): what is before the last element of p, cleaned; the last
\* slash belongs to it.
Dir(p) == Clean(SubSeq(p, 1, Len(p) - Len(AfterLast(p, "/"))))

\* A function as the table of its values: equal to f, and evaluated once.
Tabled(f) == f @@ <<>>

\* path.Dir of every path.
DirOf == Tabled([p \in Paths |-> Dir(p)])

-----------------------------------------------------------------------------
(* os.Stat on the directories of the host                                  *)

\* The host has one directory at each depth 0..Len(devs) - 1, each named
\* "a" in the one above; devs gives the device of each, and cwd the depth
\* of the working directory of the process.
FileSystems ==
    {f \in [devs : {<<1>> \o devs : devs \in SeqsUpTo({1, 2}, MaxDepth)}, cwd : 0..MaxDepth] :
        f.cwd < Len(f.devs)}

\* The inode of the directory at a depth: that of a file system's root for
\* the root and for a directory another device is mounted on, else its own.
InodeAt(f, depth) ==
    IF depth = 0 \/ f.devs[depth + 1] # f.devs[depth] THEN 2 ELSE 10 + depth

\* The directory the kernel reaches on host f from depth at through the
\* elements from i on, or -1 when one of them does not exist: "." stays,
\* ".." goes up (the root is its own parent), "a" goes down.
RECURSIVE Walk(_, _, _, _)
Walk(f, elems, i, at) ==
    IF i > Len(elems) THEN at
    ELSE IF elems[i] = <<>> \/ elems[i] = <<".">> THEN Walk(f, elems, i + 1, at)
    ELSE IF elems[i] = <<".", ".">> THEN Walk(f, elems, i + 1, IF at = 0 THEN 0 ELSE at - 1)
    ELSE IF elems[i] = <<"a">> /\ at + 1 < Len(f.devs) THEN Walk(f, elems, i + 1, at + 1)
    ELSE -1

\* os.Stat(p) on host f: the device and inode of what p names, or an error.
StatOn(f, p) ==
    LET at == IF p = <<>> THEN -1
              ELSE Walk(f, Split(p, "/"), 1, IF p[1] = "/" THEN 0 ELSE f.cwd)
    IN  IF at < 0 THEN [err |-> "no such file or directory", Dev |-> 0, Ino |-> 0]
        ELSE [err |-> Nil, Dev |-> f.devs[at + 1], Ino |-> InodeAt(f, at)]

\* os.Stat of every path on every host.
StatOf == Tabled([f \in FileSystems |-> Tabled([p \in Paths |-> StatOn(f, p)])])

\* os.Stat(p) on the host as it is.
Stat(p) == StatOf[fs][p]

-----------------------------------------------------------------------------
(* findMountPoint, isMountPoint                                            *)

\* isMountPoint with the comparison of the inodes left out.
isMountPointDevOnly(location) ==
    LET stat == Stat(location)
        parentStat == Stat(DirOf[location])
    IN  IF stat.err # Nil THEN [isMount |-> FALSE, err |-> stat.err]
        ELSE IF parentStat.err # Nil THEN [isMount |-> FALSE, err |-> parentStat.err]
        ELSE IF stat.Dev # parentStat.Dev THEN [isMount |-> TRUE, err |-> Nil]
        ELSE [isMount |-> FALSE, err |-> Nil]

\* isMountPoint(location)
isMountPoint(location) ==
    LET stat == Stat(location)
        parentStat == Stat(DirOf[location])
    IN  IF stat.err # Nil THEN [isMount |-> FALSE, err |-> stat.err]
        ELSE IF parentStat.err # Nil THEN [isMount |-> FALSE, err |-> parentStat.err]
        ELSE IF stat.Dev # parentStat.Dev THEN [isMount |-> TRUE, err |-> Nil]
        ELSE IF stat.Ino = parentStat.Ino THEN [isMount |-> TRUE, err |-> Nil]
        ELSE [isMount |-> FALSE, err |-> Nil]

\* No findMountPoint call is under way.
NoFindCall == [state |-> "idle", start |-> <<>>, location |-> <<>>, ret |-> <<>>, err |-> Nil]

\* The host before anything is mounted: the root alone.
RootOnly == [devs |-> <<1>>, cwd |-> 0]

\* Between two calls directories are made and devices mounted.
Remount ==
    /\ fcall = NoFindCall
    /\ fs' \in FileSystems
    /\ UNCHANGED <<fcall, streamVars, quotaVars, clientVars>>

\* findMountPoint is called with a path.
CallFindMountPoint ==
    /\ fcall = NoFindCall
    /\ \E location \in Paths :
        fcall' = [NoFindCall EXCEPT !.state = "running", !.start = location, !.location = location]
    /\ UNCHANGED <<fs, streamVars, quotaVars, clientVars>>

\* One invocation of findMountPoint(location): it returns the error of
\* isMountPoint, or the location, or goes on with
\* findMountPoint(path.Dir(location)).
findMountPoint ==
    /\ fcall.state = "running"
    /\ LET is == isMountPoint(fcall.location)
       IN  fcall' = IF is.err # Nil
                    THEN [fcall EXCEPT !.state = "returned", !.ret = <<>>, !.err = is.err]
                    ELSE IF is.isMount
                    THEN [fcall EXCEPT !.state = "returned", !.ret = fcall.location]
                    ELSE [fcall EXCEPT !.location = DirOf[fcall.location]]
    /\ UNCHANGED <<fs, streamVars, quotaVars, clientVars>>

\* The caller takes the result.
FindReturn ==
    /\ fcall.state = "returned"
    /\ fcall' = NoFindCall
    /\ UNCHANGED <<fs, streamVars, quotaVars, clientVars>>

-----------------------------------------------------------------------------
(* Specifications                                                          *)

NoManager == [made |-> FALSE, mountPoint |-> <<>>]

NoQuotaCall == [op |-> Nil]

Init ==
    /\ calls = [c \in Calls |-> NotCalled]
    /\ bodies = [c \in Calls |-> NoBody]
    /\ chans = [c \in Calls |-> NoChan]
    /\ tasks = <<>>
    /\ received = [c \in Calls |-> <<>>]
    /\ consumer = [c \in Calls |-> "reading"]
    /\ qm = NoManager
    /\ dfOut = <<>>
    /\ qcall = NoQuotaCall
    /\ conn = NewConnection
    /\ ccall = NoClientCall
    /\ failed = FALSE
    /\ fs = RootOnly
    /\ fcall = NoFindCall

Next ==
    \/ \E c \in Calls : Run(c)
    \/ \E c \in Calls : Attach(c)
    \/ \E t \in 1..Cardinality(Calls) : SPRead(t)
    \/ \E t \in 1..Cardinality(Calls) : SPSend(t)
    \/ \E t \in 1..Cardinality(Calls) : SPClose(t)
    \/ \E t \in 1..Cardinality(Calls) : SPCloseBody(t)
    \/ \E c \in Calls : ConsumerStop(c)
    \/ \E c \in Calls : ConsumerSeesClose(c)

Spec == Init /\ [][Next]_vars

\* One Run or Attach call, its goroutine and its consumer, under the Go
\* scheduler: it runs every goroutine that can take a step, and a send is
\* such a step for as long as the consumer is receiving.
NextOne ==
    \/ Run(1)
    \/ Attach(1)
    \/ SPRead(1)
    \/ SPSend(1)
    \/ SPClose(1)
    \/ SPCloseBody(1)
    \/ ConsumerStop(1)
    \/ ConsumerSeesClose(1)

FairSpec == Init /\ [][NextOne]_vars /\ WF_vars(streamPayloads(1))

\* The caller takes the result of a quota manager call that has returned;
\* the next call can begin.
QuotaReturn ==
    /\ qcall.op # Nil
    /\ qcall.op \in {"GetLimits", "GetUsage"} => qcall.returned
    /\ qcall' = NoQuotaCall
    /\ UNCHANGED <<qm, dfOut, streamVars, clientVars, mountVars>>

\* The quota manager: New, then any sequence of its three methods.
QuotaNext ==
    \/ New
    \/ SetLimits
    \/ GetLimits
    \/ GetUsage
    \/ QuotaReturn

QuotaSpec == Init /\ [][QuotaNext]_vars

\* The connection used by one caller: any sequence of its methods, among
\* them one Run or Attach.
ClientNext ==
    \/ CallLimitBandwidth
    \/ CallCurrentBandwidthLimits
    \/ CallLimitCPU
    \/ CallCurrentCPULimits
    \/ CallLimitDisk
    \/ CallCurrentDiskLimits
    \/ CallLimitMemory
    \/ CallCurrentMemoryLimits
    \/ CallSimple
    \/ CallStreamIn
    \/ CallStreamOut
    \/ ClientReturn
    \/ Run(1)
    \/ Attach(1)

ClientSpec == Init /\ [][ClientNext]_vars

\* findMountPoint on a host whose mounts change between the calls. The
\* function is sequential code: an invocation that can run does run.
MountNext ==
    \/ Remount
    \/ CallFindMountPoint
    \/ findMountPoint
    \/ FindReturn

MountSpec == Init /\ [][MountNext]_vars /\ WF_vars(findMountPoint)

-----------------------------------------------------------------------------
(* Claims about Run, Attach and streamPayloads                             *)

\* A wire message as the output item the consumer is to see for it.
ChunkOf(m) ==
    IF m.ExitStatus # Unset
    THEN [Source |-> Nil, Data |-> Nil, ExitStatus |-> m.ExitStatus]
    ELSE [Source |-> CASE m.Source = "stdout" -> "ProcessStreamSourceStdout"
                       [] m.Source = "stderr" -> "ProcessStreamSourceStderr"
                       [] OTHER -> "ProcessStreamSourceStdin",
          Data |-> IF m.Data = Nil THEN "" ELSE m.Data,
          ExitStatus |-> Unset]

\* The items for everything the demultiplexer has read from call c's body.
Expected(c) == [i \in 1..Len(Streamed(bodies[c])) |-> ChunkOf(Streamed(bodies[c])[i])]

TasksOf(c) == {t \in DOMAIN tasks : tasks[t].stream = c}

HasExit(items) == \E i \in 1..Len(items) : items[i].ExitStatus # Unset

PastSending(c) == \A t \in TasksOf(c) : tasks[t].pc \in {"close", "closeBody", "done"}

\* C1: the consumer receives exactly the payloads streamPayloads read, in
\* wire order, none lost, duplicated or reordered (at most the one being
\* sent is outstanding); once it has received the exit status the goroutine
\* sends nothing more and goes on to close the channel; and a consumer that
\* keeps reading gets all of them and the channel is then closed.
C1_ItemsInWireOrderThenClosed ==
    /\ [](\A c \in Calls :
            /\ IsPrefix(received[c], Expected(c))
            /\ Len(Expected(c)) - Len(received[c]) <= 1
            /\ (HasExit(received[c]) => PastSending(c)))
    /\ \A c \in Calls :
            (calls[c].state = "ok")
                ~> (consumer[c] = "stopped" \/ (chans[c].closed /\ received[c] = Expected(c)))

\* The run of the lifecycle test: hello, goodbye, exit status 42 observed as
\* three items in that order and the channel closed.
C1_Witness ==
    /\ calls[1].kind = "Run"
    /\ Streamed(bodies[1]) = <<Hello, Goodbye, Exit42>>
    /\ Len(received[1]) = 3
    /\ received[1][1].Data = "hello\n"
    /\ received[1][2].Data = "goodbye\n"
    /\ received[1][3].ExitStatus = <<42>>
    /\ chans[1].closed

\* C2: on every channel at most one item carries an exit status and it is
\* the last one published.
C2_ExitStatusIsLast ==
    \A c \in Calls : \A i \in 1..Len(received[c]) :
        received[c][i].ExitStatus # Unset => i = Len(received[c])

\* The exit status was published, the goroutine has finished, and the
\* response body has not ended: the wire may hold more messages.
C2_Witness ==
    \E c \in Calls :
        /\ HasExit(received[c])
        /\ Len(received[c]) = 2
        /\ \A t \in TasksOf(c) : tasks[t].pc = "done"
        /\ bodies[c].end = Nil
        /\ NextOnWire(bodies[c]) # {}

BodyEndedWithoutExit(c) ==
    /\ calls[c].state = "ok"
    /\ bodies[c].end # Nil
    /\ ~HasExit(Expected(c))

\* C3: when the body ends or fails before an exit status was read and the
\* consumer keeps reading, the channel and the body end up closed, and the
\* consumer has received the chunks read so far and nothing else.
C3_ClosedWhenBodyEnds ==
    \A c \in Calls :
        BodyEndedWithoutExit(c)
            ~> (consumer[c] = "stopped"
                    \/ (/\ chans[c].closed
                        /\ bodies[c].closed
                        /\ received[c] = Expected(c)
                        /\ ~HasExit(received[c])))

\* A read error after one chunk: the consumer got the chunk and saw the
\* channel closed, and the body is closed.
C3_Witness ==
    /\ BodyEndedWithoutExit(1)
    /\ bodies[1].end = "ERR"
    /\ received[1] = <<ChunkOf(Hello)>>
    /\ chans[1].closed
    /\ bodies[1].closed
    /\ consumer[1] = "sawClose"

\* C4: whatever the consumer does, the goroutine of a call that returned a
\* channel reaches the end of the wire, closes the channel and closes the
\* response body.
C4_ClosedWithoutConsumer ==
    \A c \in Calls : (calls[c].state = "ok") ~> (chans[c].closed /\ bodies[c].closed)

\* C5: each successful call has exactly one goroutine, a failed call none;
\* only that goroutine sends on and closes the call's channel; the channel
\* is closed at most once and nothing is sent on it once it is closed.
C5_OneSenderOneCloser ==
    \A c \in Calls :
        /\ Cardinality(TasksOf(c)) = (IF calls[c].state = "ok" THEN 1 ELSE 0)
        /\ chans[c].senders \subseteq TasksOf(c)
        /\ chans[c].closers \subseteq TasksOf(c)
        /\ chans[c].closes <= 1
        /\ chans[c].lateSends = 0
        /\ (chans[c].closed => \A t \in TasksOf(c) : tasks[t].pc \in {"closeBody", "done"})

\* Both calls returned a channel, each goroutine has sent and closed.
C5_Witness ==
    \A c \in Calls :
        /\ calls[c].state = "ok"
        /\ chans[c].senders # {}
        /\ chans[c].closers = chans[c].senders
        /\ chans[c].closes = 1

\* The payloads a goroutine of call c has read and not yet sent.
InFlight(c) == Cardinality({t \in TasksOf(c) : tasks[t].payload # <<>>})

\* C6: with two Run calls in progress on the connection, every goroutine
\* reads the body of the call whose channel it feeds, and what a call's
\* channel has carried is what was taken from that call's own body, in
\* that body's order.
C6_StreamsIndependent ==
    \A c \in Calls : \A d \in Calls \ {c} :
        (calls[c].kind = "Run" /\ calls[d].kind = "Run"
            /\ calls[c].state = "ok" /\ calls[d].state = "ok")
        => /\ \A t \in TasksOf(c) : tasks[t].reader = c
           /\ Len(Expected(c)) >= InFlight(c)
           /\ received[c] = SubSeq(Expected(c), 1, Len(Expected(c)) - InFlight(c))

\* Two Run streams with different contents, both under way, both goroutines
\* holding a payload that the consumer has yet to take.
C6_Witness ==
    /\ calls[1].kind = "Run" /\ calls[2].kind = "Run"
    /\ received[1] = <<ChunkOf(Hello)>>
    /\ received[2] = <<ChunkOf(Goodbye)>>
    /\ InFlight(1) = 1 /\ InFlight(2) = 1
    /\ tasks[1].payload # tasks[2].payload

-----------------------------------------------------------------------------
(* Claims about the quota manager                                          *)

\* ceil(b / d) as a number: the quotient, plus one when d does not divide b.
CeilDiv(b, d) == IF Rem64(b, d) = 0 THEN Div64(b, d) ELSE Add64(Div64(b, d), U64(1))

\* What a byte limit b and the caller's block value make of a block argument.
BlocksFor(b, block) == IF b # U64(0) THEN CeilDiv(b, 1024) ELSE block

\* C7: for every uint64 byte limit b other than 0 the block argument given
\* to setquota is ceil(b / 1024), soft and hard alike; for b = 0 it is the
\* caller's block value.
C7_BlocksAreCeil ==
    qcall.op = "SetLimits" =>
        /\ qcall.cmd.blockSoft = BlocksFor(qcall.limits.ByteSoft, qcall.limits.BlockSoft)
        /\ qcall.cmd.blockHard = BlocksFor(qcall.limits.ByteHard, qcall.limits.BlockHard)

\* C8: when the caller gives both a block limit and the byte limit, the
\* block argument given to setquota is the caller's block limit.
C8_BlockLimitWins ==
    qcall.op = "SetLimits" =>
        /\ (qcall.limits.BlockSoft # U64(0) /\ qcall.limits.ByteSoft # U64(0)
                => qcall.cmd.blockSoft = qcall.limits.BlockSoft)
        /\ (qcall.limits.BlockHard # U64(0) /\ qcall.limits.ByteHard # U64(0)
                => qcall.cmd.blockHard = qcall.limits.BlockHard)

\* An output of eight numbers.
EightNumbers(out) ==
    Len(out.fields) = 8 /\ \A i \in 1..8 : out.fields[i] # NotANumber

\* C9: for every repquota output of eight numbers f1..f8, GetLimits returns
\* block limits f3, f4 and inode limits f7, f8 with zero byte limits, and
\* GetUsage returns f2 bytes and f6 inodes used.
C9_FieldsByPosition ==
    /\ (qcall.op = "GetLimits" /\ qcall.returned /\ EightNumbers(qcall.out)) =>
            qcall.ret = [BlockSoft |-> qcall.out.fields[3], BlockHard |-> qcall.out.fields[4],
                         InodeSoft |-> qcall.out.fields[7], InodeHard |-> qcall.out.fields[8],
                         ByteSoft |-> U64(0), ByteHard |-> U64(0)]
    /\ (qcall.op = "GetUsage" /\ qcall.returned /\ EightNumbers(qcall.out)) =>
            qcall.ret = [BytesUsed |-> qcall.out.fields[2], InodesUsed |-> qcall.out.fields[6]]

IsSpace(c) == c \in {" ", "\t", "\n"}

RECURSIVE DropTrailingSpace(_)
DropTrailingSpace(s) ==
    IF s # <<>> /\ IsSpace(Last(s)) THEN DropTrailingSpace(SubSeq(s, 1, Len(s) - 1)) ELSE s

RECURSIVE TrailingToken(_)
TrailingToken(s) ==
    IF s = <<>> \/ IsSpace(Last(s)) THEN <<>>
    ELSE Append(TrailingToken(SubSeq(s, 1, Len(s) - 1)), Last(s))

\* The last white-space-separated token of s (empty when s has none).
LastToken(s) == TrailingToken(DropTrailingSpace(s))

\* The last line of an output, the newlines that end the output left out.
FinalLine(s) == AfterLast(TrimRight(s, "\n"), "\n")

\* C10 as stated: the mount point is the last token of df's final output
\* line, white space being spaces, tabs and newlines, and stays so.
C10_LastTokenOfFinalLine == qm.made => qm.mountPoint = LastToken(FinalLine(dfOut))

\* The last token of the final line follows a space directly and ends the
\* line, as the last column of a row of df -P does.
LastColumnAfterSpace(s) ==
    LET line == FinalLine(s)
        word == AfterLast(line, " ")
    IN  /\ word # line
        /\ word # <<>>
        /\ \A i \in 1..Len(word) : word[i] # "\t"

\* C10, amended: the mount point is the text after the last space of df's
\* output with the newlines around it removed; it is the last token of the
\* final line when that token follows a space directly and ends the line;
\* no later call changes it.
C10_LastWordAfterSpace ==
    qm.made =>
        /\ qm.mountPoint = Trim(AfterLast(dfOut, " "), "\n")
        /\ (LastColumnAfterSpace(dfOut) => qm.mountPoint = LastToken(FinalLine(dfOut)))

\* A row ending in a column after a space and a newline gave that column,
\* and it is still the mount point after New, SetLimits, GetLimits and, now,
\* GetUsage.
C10_Witness ==
    /\ qm.made
    /\ dfOut = <<"a", " ", "a", "\n">>
    /\ LastColumnAfterSpace(dfOut)
    /\ qm.mountPoint = <<"a">>
    /\ qcall.op = "GetUsage"
    /\ qcall.mountPoint = <<"a">>


-----------------------------------------------------------------------------
(* Claims about the request/response methods of the client                 *)

SetMethods == {"LimitBandwidth", "LimitCPU", "LimitDisk", "LimitMemory"}

GetMethods ==
    {"CurrentBandwidthLimits", "CurrentCPULimits", "CurrentDiskLimits", "CurrentMemoryLimits"}

\* The route of each limit kind.
LimitRoute(method) ==
    CASE method \in {"LimitBandwidth", "CurrentBandwidthLimits"} -> "/limit_bandwidth"
      [] method \in {"LimitCPU", "CurrentCPULimits"} -> "/limit_cpu"
      [] method \in {"LimitDisk", "CurrentDiskLimits"} -> "/limit_disk"
      [] method \in {"LimitMemory", "CurrentMemoryLimits"} -> "/limit_memory"

\* The value fields of each kind's messages, with the field of the limits
\* structure that each carries.
LimitFields(route) ==
    CASE route = "/limit_bandwidth" ->
            [Rate |-> "RateInBytesPerSecond", Burst |-> "BurstRateInBytesPerSecond"]
      [] route = "/limit_cpu" -> [LimitInShares |-> "LimitInShares"]
      [] route = "/limit_disk" ->
            [BlockSoft |-> "BlockSoft", BlockHard |-> "BlockHard", InodeSoft |-> "InodeSoft",
             InodeHard |-> "InodeHard", ByteSoft |-> "ByteSoft", ByteHard |-> "ByteHard"]
      [] route = "/limit_memory" -> [LimitInBytes |-> "LimitInBytes"]

\* C11: for each of the four limit kinds the get method and the set method
\* send one message to the same route; the get message has the handle and
\* every value field unset, the set message has the handle and every value
\* field present with the caller's value (also a 0); and both decode a
\* response the same way: each result field is the response's field, 0
\* when the response leaves it unset.
C11_LimitGetSetSameShape ==
    ccall.method \in (SetMethods \cup GetMethods) =>
        LET route == LimitRoute(ccall.method)
            fields == LimitFields(route)
            req == ccall.sent[1].msg
        IN  /\ Len(ccall.sent) = 1
            /\ ccall.sent[1].route = route
            /\ DOMAIN req = {"Handle"} \cup DOMAIN fields
            /\ req.Handle = ccall.args.handle
            /\ \A f \in DOMAIN fields :
                    req[f] = IF ccall.method \in GetMethods THEN Unset
                             ELSE <<ccall.args.limits[fields[f]]>>
            /\ ccall.err = Nil =>
                    /\ DOMAIN ccall.ret = {fields[f] : f \in DOMAIN fields}
                    /\ \A f \in DOMAIN fields :
                            ccall.ret[fields[f]] = IF ccall.res[1][f] = Unset THEN 0
                                                   ELSE ccall.res[1][f][1]

\* LimitMemory with the limit 0: the request carries the field, set to 0,
\* and the result is the 5 the server answered.
C11_Witness ==
    /\ ccall.method = "LimitMemory"
    /\ ccall.args.limits.LimitInBytes = 0
    /\ ccall.sent[1].msg.LimitInBytes = <<0>>
    /\ ccall.err = Nil
    /\ ccall.ret.LimitInBytes = 5

\* CurrentDiskLimits answered with some fields unset: they read as 0.
C11_WitnessGet ==
    /\ ccall.method = "CurrentDiskLimits"
    /\ ccall.err = Nil
    /\ ccall.res[1].BlockSoft = Unset
    /\ ccall.ret.BlockSoft = 0
    /\ ccall.ret.BlockHard = 2

\* Whether a call that got a response with this status returned this error
\* as the claim has it: no status error for 200..299, the status text for
\* every other status.
StatusHandledAs2xx(status, err) ==
    IF status \in 200..299 THEN err # StatusText(status) ELSE err = StatusText(status)

\* C12: for every client operation (run, attach, stream-in and stream-out
\* among them) a response status in 200..299 is a success, and a status
\* outside it makes the call return an error whose text is the HTTP status
\* text.
C12_Any2xxIsSuccess ==
    /\ (ccall # NoClientCall /\ ccall.body # "none") => StatusHandledAs2xx(ccall.status, ccall.err)
    /\ \A c \in Calls : calls[c].status # 0 => StatusHandledAs2xx(calls[c].status, calls[c].err)

\* The part of C12 that post implements, for the methods that use post.
C12_PostAccepts2xx ==
    (ccall # NoClientCall /\ ccall.body # "none" /\ ccall.method \notin {"StreamIn", "StreamOut"})
        => StatusHandledAs2xx(ccall.status, ccall.err)

-----------------------------------------------------------------------------
(* Claims about Run and Attach as method calls                             *)

\* An Attach that the server has answered, for a process id no process has.
AttachedToUnknownProcess(c) ==
    /\ calls[c].kind = "Attach"
    /\ calls[c].processID # GetProcessId(PidMsg)
    /\ calls[c].status # 0

\* C13: Attach for a process id that refers to no running process returns
\* a non-nil error that is a domain error (a *WardenError naming the
\* process, not the error of a failed transport exchange) and no channel,
\* so the caller is not left waiting on a channel.
C13_UnknownProcessIsDomainError ==
    \A c \in Calls :
        AttachedToUnknownProcess(c) =>
            /\ calls[c].state = "error"
            /\ calls[c].err # Nil
            /\ calls[c].errType = "*WardenError"
            /\ ~chans[c].made

\* What Attach does give for such a process id: the status text as error
\* and no channel.
C13_UnknownProcessIsStatusError ==
    \A c \in Calls :
        AttachedToUnknownProcess(c) =>
            /\ calls[c].state = "error"
            /\ calls[c].err = StatusText(calls[c].status)
            /\ calls[c].errType = "*errors.errorString"
            /\ ~chans[c].made

-----------------------------------------------------------------------------
(* Claims about the pipe and the tools of the quota manager                *)

ReportCalls == {"GetLimits", "GetUsage"}

\* C15: when GetLimits or GetUsage has returned, both ends of the pipe it
\* made are closed, whether the scan succeeded, the scan failed or
\* repquota could not be started; and when os.Pipe failed there is no end
\* left open.
C15_PipeEndsClosedAtReturn ==
    (qcall.op \in ReportCalls /\ qcall.returned) =>
        /\ qcall.pipe.r # "open"
        /\ qcall.pipe.w # "open"
        /\ qcall.runs = 0 => qcall.pipe = [r |-> "none", w |-> "none"]
        /\ qcall.runs > 0 => qcall.pipe = [r |-> "closed", w |-> "closed"]

\* GetUsage returned the error of a scan that met a word where a number
\* was to be: both ends are closed.
C15_Witness ==
    /\ qcall.op = "GetUsage"
    /\ qcall.started
    /\ qcall.returned
    /\ qcall.err = "expected integer"
    /\ qcall.pipe = [r |-> "closed", w |-> "closed"]

\* The other exit paths: repquota not started, os.Pipe failed, success.
C15_WitnessNotStarted ==
    /\ qcall.op = "GetLimits"
    /\ ~qcall.started
    /\ qcall.runs = 1
    /\ qcall.err = "exit status 1"
    /\ qcall.pipe = [r |-> "closed", w |-> "closed"]

C15_WitnessNoPipe ==
    /\ qcall.op = "GetLimits"
    /\ qcall.err = "too many open files"
    /\ qcall.pipe = [r |-> "none", w |-> "none"]

C15_WitnessSuccess ==
    /\ qcall.op = "GetLimits"
    /\ qcall.started
    /\ qcall.returned
    /\ qcall.err = Nil
    /\ qcall.ret.BlockHard = U64(1200)
    /\ qcall.pipe = [r |-> "closed", w |-> "closed"]

\* C16: every failure of a quota tool makes the call return an error, after
\* one invocation of the tool: a non-zero exit of df in New, of setquota in
\* SetLimits, of repquota in GetLimits and GetUsage, and a repquota output
\* that is not eight numbers.
C16_ToolFailuresSurfaced ==
    /\ (qcall.op \in {"New", "SetLimits"} /\ qcall.exit # 0) =>
            qcall.err # Nil /\ qcall.runs = 1
    /\ (qcall.op \in ReportCalls /\ qcall.started
            /\ (qcall.exit # 0 \/ ~EightNumbers(qcall.out))) =>
            qcall.returned /\ qcall.err # Nil /\ qcall.runs = 1

\* The failures that are surfaced: those of df and setquota, and an output
\* that is not eight numbers once the scan has returned.
C16_SurfacedFailures ==
    /\ (qcall.op \in {"New", "SetLimits"} /\ qcall.exit # 0) =>
            qcall.err # Nil /\ qcall.runs = 1
    /\ (qcall.op \in ReportCalls /\ qcall.started /\ qcall.returned
            /\ ~EightNumbers(qcall.out)) =>
            qcall.err # Nil /\ qcall.runs = 1

\* repquota wrote the eight numbers of the example and a newline, exited
\* with status 1, and GetLimits returned the limits with a nil error.
C16_ExitStatusLost ==
    /\ qcall.op = "GetLimits"
    /\ qcall.started
    /\ qcall.exit = 1
    /\ qcall.returned
    /\ qcall.err = Nil
    /\ qcall.ret.BlockSoft = U64(1000)

\* C19: GetLimits and GetUsage return whenever repquota has terminated,
\* whatever it wrote, also when it wrote nothing or fewer than eight fields
\* with no newline at the end: the read on the pipe does not wait for ever.
C19_ReturnsWhenRepquotaExits ==
    (qcall.op \in ReportCalls /\ qcall.started) => qcall.returned

\* What does hold: the call returns when the output ends with a newline.
C19_ReturnsAfterNewline ==
    (qcall.op \in ReportCalls /\ qcall.started /\ qcall.out.eol) => qcall.returned

\* repquota wrote nothing and exited; GetUsage is in the scan with both
\* ends of the pipe open, and no step of the manager is possible.
C19_BlockedOnEmptyOutput ==
    /\ qcall.op = "GetUsage"
    /\ qcall.started
    /\ qcall.out.fields = <<>>
    /\ ~qcall.returned
    /\ qcall.pipe = [r |-> "open", w |-> "open"]
    /\ ~ENABLED QuotaNext

-----------------------------------------------------------------------------
(* Claims about the first message, the http clients and the response body  *)

\* The output items for the messages log[from], log[from + 1], ...
ItemsFrom(log, from) == [i \in 1..(Len(log) - from + 1) |-> ChunkOf(log[i + from - 1])]

\* C17: a Run that returned a channel has read exactly one message of the
\* body itself, the first, before its goroutine existed, and returned that
\* message's process id; that message is not among the items of the channel
\* and every later message was read by streamPayloads. An Attach that
\* returned a channel has read no message itself: the items of its channel
\* begin with the first message of the body.
C17_RunReadsFirstMessageOnly ==
    \A c \in Calls :
        /\ (calls[c].kind = "Run" /\ calls[c].state = "ok") =>
                /\ Len(bodies[c].log) >= 1
                /\ bodies[c].by[1] = "Run"
                /\ \A i \in 2..Len(bodies[c].by) : bodies[c].by[i] = "streamPayloads"
                /\ <<calls[c].pid>> = bodies[c].log[1].ProcessId
                /\ IsPrefix(received[c], ItemsFrom(bodies[c].log, 2))
        /\ (calls[c].kind = "Attach" /\ calls[c].state = "ok") =>
                /\ \A i \in 1..Len(bodies[c].by) : bodies[c].by[i] = "streamPayloads"
                /\ IsPrefix(received[c], ItemsFrom(bodies[c].log, 1))
        /\ Len(bodies[c].by) = Len(bodies[c].log)

\* Run returned process id 7 from the first message; the goroutine read
\* hello after it and hello is the first item of the channel.
C17_Witness ==
    /\ calls[1].kind = "Run"
    /\ calls[1].pid = 7
    /\ bodies[1].log = <<PidMsg, Hello>>
    /\ bodies[1].by = <<"Run", "streamPayloads">>
    /\ received[1] = <<ChunkOf(Hello)>>

\* Attach: hello is the first message of the body and the first item.
C17_WitnessAttach ==
    /\ calls[1].kind = "Attach"
    /\ bodies[1].log = <<Hello>>
    /\ bodies[1].by = <<"streamPayloads">>
    /\ received[1] = <<ChunkOf(Hello)>>

\* Whether every request of a call went through a client of the connection
\* whose transport has keep-alive disabled (or, with FALSE, enabled).
SentWithKeepAliveDisabled(sent, disabled) ==
    \A i \in 1..Len(sent) : conn[sent[i].client].DisableKeepAlives = disabled

\* C18: run, attach, stream-in and stream-out send their request through
\* the client whose transport has keep-alive disabled; every other
\* operation sends its request through the keep-alive client.
C18_StreamingWithoutKeepAlive ==
    /\ ccall # NoClientCall =>
            SentWithKeepAliveDisabled(ccall.sent, ccall.method \in {"StreamIn", "StreamOut"})
    /\ \A c \in Calls : calls[c].state # "idle" => SentWithKeepAliveDisabled(calls[c].sent, TRUE)

\* The part that holds: the choice of client of every method but Run and
\* Attach.
C18_ClientOfOtherMethods ==
    ccall # NoClientCall =>
        SentWithKeepAliveDisabled(ccall.sent, ccall.method \in {"StreamIn", "StreamOut"})

\* Run sent its request through the keep-alive client and got a channel.
C18_RunKeepsAlive ==
    /\ calls[1].kind = "Run"
    /\ calls[1].state = "ok"
    /\ calls[1].sent[1].client = "httpClient"
    /\ ~conn.httpClient.DisableKeepAlives
    /\ chans[1].made

\* C20: a call that got an HTTP response and returned without handing the
\* body to its caller or to a streamPayloads goroutine has closed the body:
\* the methods that use post, StreamIn with any status, StreamOut, Run and
\* Attach with a status other than 200, Run when its read of the first
\* message failed.
C20_BodyClosedUnlessHandedOver ==
    /\ (ccall # NoClientCall /\ ccall.body # "none" /\ ~ccall.handed) => ccall.body = "closed"
    /\ \A c \in Calls :
            (calls[c].status # 0 /\ TasksOf(c) = {}) => bodies[c].closed

\* The part that holds: every method but StreamIn, and Run and Attach when
\* the status is not 200.
C20_ClosedByPostAndOnBadStatus ==
    /\ (ccall # NoClientCall /\ ccall.body # "none" /\ ~ccall.handed /\ ccall.method # "StreamIn")
            => ccall.body = "closed"
    /\ \A c \in Calls :
            (calls[c].status \notin {0, 200} /\ TasksOf(c) = {}) => bodies[c].closed

\* Run got status 200, its read of the first message failed, it returned
\* the error, and the body is still open with no goroutine to close it.
C20_RunLeavesBodyOpen ==
    /\ calls[1].kind = "Run"
    /\ calls[1].state = "error"
    /\ calls[1].status = 200
    /\ bodies[1].end # Nil
    /\ ~bodies[1].closed
    /\ TasksOf(1) = {}

-----------------------------------------------------------------------------
(* Claims about findMountPoint                                             *)

\* p, parent(p), parent(parent(p)), ...: the k-th path of the chain, the
\* parent of a path being what path.Dir names.
RECURSIVE Ancestor(_, _)
Ancestor(p, k) == IF k = 0 THEN p ELSE Ancestor(Dir(p), k - 1)

\* Stat succeeds on a path and on its parent.
StatsOf(p) == Stat(p).err = Nil /\ Stat(Dir(p)).err = Nil

\* The path's device differs from its parent's, or its inode equals its
\* parent's.
Matches(p) ==
    /\ StatsOf(p)
    /\ (Stat(p).Dev # Stat(Dir(p)).Dev \/ Stat(p).Ino = Stat(Dir(p)).Ino)

\* The first k paths of the chain were examined without error or match.
WalkedPast(p, k) == \A j \in 0..(k - 1) : StatsOf(Ancestor(p, j)) /\ ~Matches(Ancestor(p, j))

\* C21: findMountPoint examines p, parent(p), parent(parent(p)), ... in
\* turn; what it returns is the first path of that chain whose device
\* differs from its parent's or whose inode equals its parent's, or, when
\* stat fails on a path of the chain or on its parent before any match,
\* that error and no path; and every call returns.
C21_FirstMountPointOfChain ==
    /\ [](fcall.state = "running" =>
            \E k \in 0..(Len(fcall.start) + 1) :
                fcall.location = Ancestor(fcall.start, k) /\ WalkedPast(fcall.start, k))
    /\ [](fcall.state = "returned" =>
            \E k \in 0..(Len(fcall.start) + 1) :
                LET p == Ancestor(fcall.start, k)
                IN  /\ WalkedPast(fcall.start, k)
                    /\ IF StatsOf(p)
                       THEN Matches(p) /\ fcall.ret = p /\ fcall.err = Nil
                       ELSE /\ fcall.ret = <<>>
                            /\ fcall.err = IF Stat(p).err # Nil THEN Stat(p).err
                                           ELSE Stat(Dir(p)).err)
    /\ (fcall.state = "running") ~> (fcall.state = "returned")

\* Another device is mounted on /a: from /a/a the walk examined /a/a, then
\* /a, and returned /a.
C21_Witness ==
    /\ fs.devs = <<1, 2, 2>>
    /\ fcall.state = "returned"
    /\ fcall.start = <<"/", "a", "/", "a">>
    /\ fcall.ret = <<"/", "a">>
    /\ fcall.err = Nil

\* Nothing is mounted: the walk from /a/a ends at the root, whose inode is
\* its parent's.
C21_WitnessRoot ==
    /\ fs.devs = <<1, 1, 1>>
    /\ fcall.state = "returned"
    /\ fcall.start = <<"/", "a", "/", "a">>
    /\ fcall.ret = <<"/">>

\* A path that does not exist: the error of stat and no path.
C21_WitnessError ==
    /\ fs.devs = <<1, 1>>
    /\ fcall.state = "returned"
    /\ fcall.start = <<"/", "a", "/", "a">>
    /\ fcall.ret = <<>>
    /\ fcall.err = "no such file or directory"

\* A relative path: the chain a/a, a, . ends at ".", which path.Dir gives
\* as its own parent.
C21_WitnessRelative ==
    /\ fs = [devs |-> <<1, 1, 1>>, cwd |-> 0]
    /\ fcall.state = "returned"
    /\ fcall.start = <<"a", "/", "a">>
    /\ fcall.ret = <<".">>

=============================================================================
